---- MODULE Spec2Model ----
(***************************************************************************)
(* Model of the OpenAI-compatible gateway of vscode-llm2api:               *)
(*   - VSCodeOpenAIAPI  (chat-sample/src/openai-api.ts): model registry    *)
(*     (initialize, listModels, selectModel) and the buffered / streaming  *)
(*     completion translators;                                             *)
(*   - OpenAIAPIServer  (same file): the wrapper that re-runs initialize;  *)
(*   - VSCodeLLMServer  (http-server.ts, src/unnamed/part_002): routing,   *)
(*     validation, SSE framing and error envelopes.                        *)
(* One step of the model is one run of JavaScript between two suspension   *)
(* points (await / for await) of one request's handler; the registry's     *)
(* cached list `models` is the only state shared between requests.         *)
(* Under Spec the connections of Conns are served one request after        *)
(* another, the cache persisting from one request to the next; under       *)
(* ConcSpec two connections are served concurrently.                       *)
(*   - registerLLMServerCommands (http-server.ts): the start and stop      *)
(*     commands around the tracked server, one step per run between the    *)
(*     awaits of a command; CmdSpec interleaves their invocations.         *)
(* Texts are TLA+ strings, concatenated with \o as the code does with +.   *)
(* The response id and the created timestamp are left out of the payloads. *)
(***************************************************************************)
EXTENDS Integers, Sequences, FiniteSets, TLC

VARIABLES
    available,  \* what the host's vscode.lm currently offers, in discovery order
    models,     \* VSCodeOpenAIAPI.models, the cached list
    req,        \* per connection: the HTTP request being served
    pc,         \* per connection: the suspension point of its handler
    cont,       \* per connection: who awaits the running initialize()
    res,        \* per connection: the http.ServerResponse
    loc,        \* per connection: locals of the translator call
    prov,       \* per connection: what the provider was asked and has produced
    before,     \* per connection: the cached list when its running initialize()
                \* was called (history, kept while that call runs)
    server,     \* registerLLMServerCommands: the tracked VSCodeLLMServer, or None
    cmd,        \* per command invocation: the command and its suspension point
    listeners,  \* the http.Server instances of this process that are listening
    created     \* VSCodeLLMServer instances constructed so far

gatewayVars == <<available, models, req, pc, cont, res, loc, prov, before>>
cmdVars == <<server, cmd, listeners, created>>
vars == <<gatewayVars, cmdVars>>

----------------------------------------------------------------------------
(* Bounds and input sets *)

MaxFrags == 2      \* fragments one provider response yields at most
MaxModels == 2     \* models the host offers at most
MaxServers == 3    \* VSCodeLLMServer instances the commands construct at most
MaxCmds == 2       \* command invocations running at once at most

\* the slots of running command invocations, and the ports the user enters
Invocations == 1..MaxCmds
Ports == {3000, 3001}

\* the connections the model has, and those that Spec serves
AllConns == {"c1", "c2"}
Conns == {"c1"}

Vendors == {"copilot", "acme"}
Families == {"gpt", "copilot-gpt"}
Fragments == {"", "a", "b"}
ModelNames == {"copilot-gpt", "gpt", "nope"}

ModelHandles == [vendor : Vendors, family : Families]

RECURSIVE SeqsUpTo(_, _)
SeqsUpTo(S, n) ==
    IF n = 0 THEN {<<>>}
    ELSE LET shorter == SeqsUpTo(S, n - 1)
         IN shorter \cup {Append(s, x) : s \in {t \in shorter : Len(t) = n - 1}, x \in S}

NoDup(s) == \A i, j \in 1..Len(s) : i # j => s[i] # s[j]

\* the lists of distinct models the host may offer
Offers == {s \in SeqsUpTo(ModelHandles, MaxModels) : NoDup(s)}

\* an optional value: <<>> when absent, <<v>> when present
None == <<>>
Some(v) == <<v>>

OneMessage == <<[role |-> "user", content |-> "hi"]>>
MessageLists == {<<>>,
                 OneMessage,
                 <<[role |-> "system", content |-> "be"],
                   [role |-> "assistant", content |-> "ok"]>>}

\* A request body, by what JSON.parse makes of it.
\*   syntax  : "aborted" (the request stream errors before its end),
\*             "bad" (JSON.parse throws), "null" (parses to null), "object"
\*   mkind   : the messages field: "absent", "null", "string" or "array"
NoBody == [syntax |-> "bad", mkind |-> "absent", msgs |-> <<>>,
           stream |-> FALSE, model |-> None]
AbortedBody == [NoBody EXCEPT !.syntax = "aborted"]
InvalidBodies ==
    {NoBody, [NoBody EXCEPT !.syntax = "null"]}
    \cup {[NoBody EXCEPT !.syntax = "object", !.mkind = k] : k \in {"absent", "null", "string"}}
\* every message list without a model name, and every model name with one
\* message
ArrayBodies ==
    {[syntax |-> "object", mkind |-> "array", msgs |-> m, stream |-> s, model |-> None] :
        m \in MessageLists, s \in BOOLEAN}
    \cup {[syntax |-> "object", mkind |-> "array", msgs |-> OneMessage, stream |-> s,
           model |-> Some(x)] : s \in BOOLEAN, x \in ModelNames}
Bodies == {AbortedBody} \cup InvalidBodies \cup ArrayBodies

Methods == {"GET", "POST", "OPTIONS"}
Paths == {"/v1/chat/completions", "/v1/models", "/health", "/nope"}

Requests ==
    {[method |-> m, path |-> p, body |-> NoBody] : m \in Methods, p \in Paths}
    \cup {[method |-> "POST", path |-> "/v1/chat/completions", body |-> b] : b \in Bodies}

NoRequest == [method |-> "", path |-> "", body |-> NoBody]

----------------------------------------------------------------------------
(* The Model Provider Capability: vscode.lm and LanguageModelChat *)

\* a query that ignores its vendor selector
ModelsOfAnyVendor(offer) == offer
\* vscode.lm.selectChatModels({ vendor: 'copilot' })
CopilotModels(offer) == SelectSeq(offer, LAMBDA m : m.vendor = "copilot")

\* vscode.lm.selectChatModels()
AllModels(offer) == offer

\* what sendRequest or the text iterator may throw: a LanguageModelError
\* (lm) with message and code, or any other error
ProviderErrors == {[lm |-> TRUE, message |-> "quota exceeded", code |-> "Blocked"],
                   [lm |-> FALSE, message |-> "socket hang up", code |-> ""]}

NoModelsMessage ==
    "No language models available. Please ensure GitHub Copilot or other LLM extensions are installed."

----------------------------------------------------------------------------
(* VSCodeOpenAIAPI: pure helpers *)

\* `${model.vendor}-${model.family}`
Composite(m) == m.vendor \o "-" \o m.family

\* listModels(): this.models.map(...)
listModels(ms) == [i \in 1..Len(ms) |-> Composite(ms[i])]

\* Array.prototype.find: the first element satisfying P, or undefined (None)
RECURSIVE FindFrom(_, _, _)
FindFrom(s, P(_), i) ==
    IF i > Len(s) THEN None
    ELSE IF P(s[i]) THEN Some(s[i])
    ELSE FindFrom(s, P, i + 1)

\* this.models[0]: undefined (None) on an empty list
First(ms) == IF Len(ms) = 0 THEN None ELSE Some(ms[1])

\* !modelName: true for undefined and for the empty string
Falsy(name) == name = None \/ name[1] = ""

\* a selection that looks for a composite match first and for a family match
\* only when there is none
selectModelCompositeFirst(ms, name) ==
    IF Falsy(name) THEN First(ms)
    ELSE LET composite == FindFrom(ms, LAMBDA m : Composite(m) = name[1], 1)
             family == FindFrom(ms, LAMBDA m : m.family = name[1], 1)
         IN IF composite # None THEN composite
            ELSE IF family # None THEN family ELSE First(ms)

\* a selection that gives up on an unknown name
selectModelStrict(ms, name) ==
    IF Falsy(name) THEN First(ms)
    ELSE FindFrom(ms, LAMBDA m : Composite(m) = name[1] \/ m.family = name[1], 1)

\* selectModel(modelName?): the result is None where the code returns undefined
selectModel(ms, name) ==
    IF Falsy(name) THEN First(ms)
    ELSE LET exactMatch ==
                 FindFrom(ms, LAMBDA m : Composite(m) = name[1] \/ m.family = name[1], 1)
         IN IF exactMatch # None THEN exactMatch ELSE First(ms)

\* a conversion that leaves the system messages out
convertMessagesWithoutSystem(msgs) ==
    LET kept == SelectSeq(msgs, LAMBDA m : m.role # "system")
    IN [i \in 1..Len(kept) |->
           [turn |-> IF kept[i].role = "assistant" THEN "assistant" ELSE "user",
            content |-> kept[i].content]]
\* convertMessages(messages): system and user become User, assistant Assistant
convertMessages(msgs) ==
    [i \in 1..Len(msgs) |->
        [turn |-> CASE msgs[i].role = "system" -> "user"
                    [] msgs[i].role = "user" -> "user"
                    [] msgs[i].role = "assistant" -> "assistant"
                    [] OTHER -> "user",
         content |-> msgs[i].content]]

\* Array.prototype.join(sep)
RECURSIVE Join(_, _)
Join(texts, sep) ==
    IF Len(texts) = 0 THEN ""
    ELSE IF Len(texts) = 1 THEN texts[1]
    ELSE texts[1] \o sep \o Join(Tail(texts), sep)

\* Math.ceil(n / d) for n >= 0, d > 0
CeilDiv(n, d) == (n + d - 1) \div d

\* an estimate over the contents put together with nothing between them
estimateTokensConcatenated(msgs) ==
    LET text == Join([i \in 1..Len(msgs) |-> msgs[i].content], "")
    IN CeilDiv(Len(text), 4)
\* estimateTokens(messages)
estimateTokens(msgs) ==
    LET text == Join([i \in 1..Len(msgs) |-> msgs[i].content], " ")
    IN CeilDiv(Len(text), 4)

\* fullContent = fragment
AccumulateLast(fullContent, fragment) == fragment
\* fullContent += fragment
Accumulate(fullContent, fragment) == fullContent \o fragment

\* the error createChatCompletion / createChatCompletionStream rethrow
TranslateError(e) ==
    IF e.lm THEN "Language Model Error: " \o e.message \o " (" \o e.code \o ")"
    ELSE e.message

UndefinedModelMessage == "Cannot read properties of undefined (reading 'sendRequest')"

\* the three chunk shapes of createChatCompletionStream
RoleChunk(m) ==
    [object |-> "chat.completion.chunk", model |-> Composite(m),
     delta |-> [role |-> Some("assistant"), content |-> None], finish_reason |-> None]
\* a content chunk that repeats the role
ContentChunkWithRole(m, fragment) ==
    [object |-> "chat.completion.chunk", model |-> Composite(m),
     delta |-> [role |-> Some("assistant"), content |-> Some(fragment)],
     finish_reason |-> None]
ContentChunk(m, fragment) ==
    [object |-> "chat.completion.chunk", model |-> Composite(m),
     delta |-> [role |-> None, content |-> Some(fragment)], finish_reason |-> None]
FinalChunk(m) ==
    [object |-> "chat.completion.chunk", model |-> Composite(m),
     delta |-> [role |-> None, content |-> None], finish_reason |-> Some("stop")]

\* a response whose total_tokens is left as it was initialised, at 0
CompletionResponseUncounted(m, msgs, fullContent) ==
    [object |-> "chat.completion", model |-> Composite(m),
     choices |-> <<[index |-> 0,
                    message |-> [role |-> "assistant", content |-> fullContent],
                    finish_reason |-> "stop"]>>,
     usage |-> [prompt_tokens |-> estimateTokens(msgs),
                completion_tokens |-> estimateTokens(<<[role |-> "assistant",
                                                        content |-> fullContent]>>),
                total_tokens |-> 0]]
\* the ChatCompletionResponse createChatCompletion builds
CompletionResponse(m, msgs, fullContent) ==
    LET prompt == estimateTokens(msgs)
        completion == estimateTokens(<<[role |-> "assistant", content |-> fullContent]>>)
    IN [object |-> "chat.completion", model |-> Composite(m),
        choices |-> <<[index |-> 0,
                       message |-> [role |-> "assistant", content |-> fullContent],
                       finish_reason |-> "stop"]>>,
        usage |-> [prompt_tokens |-> prompt, completion_tokens |-> completion,
                   total_tokens |-> prompt + completion]]

----------------------------------------------------------------------------
(* http.ServerResponse and VSCodeLLMServer.sendError *)

\* heads counts the status lines written; threw records that the handler's
\* promise was rejected because a second writeHead was attempted
\* headers is the set of <<name, value>> pairs set so far
\* closed records that the client has closed the connection under it
NewResponse == [headers |-> {}, heads |-> 0, status |-> 0,
                body |-> <<>>, ended |-> FALSE, threw |-> FALSE, closed |-> FALSE]

\* res.setHeader(name, value)
setHeader(rs, name, value) ==
    [rs EXCEPT !.headers = {h \in @ : h[1] # name} \cup {<<name, value>>}]

CorsHeaders == {<<"Access-Control-Allow-Origin", "*">>,
                <<"Access-Control-Allow-Methods", "GET, POST, OPTIONS">>,
                <<"Access-Control-Allow-Headers", "Content-Type, Authorization">>}
JsonHeaders == {<<"Content-Type", "application/json">>}
SseHeaders == {<<"Content-Type", "text/event-stream">>,
               <<"Cache-Control", "no-cache">>,
               <<"Connection", "keep-alive">>}

\* String.prototype.toLowerCase on the words of the status phrases
ToLowerCase(word) ==
    CASE word = "Bad" -> "bad"
      [] word = "Request" -> "request"
      [] word = "Not" -> "not"
      [] word = "Found" -> "found"
      [] word = "Internal" -> "internal"
      [] word = "Server" -> "server"
      [] word = "Error" -> "error"
      [] OTHER -> word

\* error.toLowerCase().replace(' ', '_'), the phrase given as its words:
\* a string pattern replaces the first occurrence only
ErrorType(words) ==
    LET lower == [i \in 1..Len(words) |-> ToLowerCase(words[i])]
    IN IF Len(lower) <= 1 THEN Join(lower, " ")
       ELSE lower[1] \o "_" \o Join(Tail(lower), " ")

BadRequest == <<"Bad", "Request">>
NotFound == <<"Not", "Found">>
InternalServerError == <<"Internal", "Server", "Error">>

\* res.writeHead(status, headers): the given headers are merged over those
\* set before; Node throws ERR_HTTP_HEADERS_SENT when the header was already
\* written, which the callers below decide with HeadersSent
HeadersSent(rs) == rs.heads > 0
\* a writeHead that sends the given headers alone
writeHeadAlone(rs, statusCode, headers) ==
    [rs EXCEPT !.heads = @ + 1, !.status = statusCode, !.headers = headers]
writeHead(rs, statusCode, headers) ==
    [rs EXCEPT !.heads = @ + 1, !.status = statusCode,
               !.headers = {h \in @ : \A g \in headers : g[1] # h[1]} \cup headers]

\* a write that puts the frame in front of what was written
writeInFront(rs, frame) == [rs EXCEPT !.body = <<frame>> \o @]
\* res.write(frame) and res.end([frame])
write(rs, frame) == [rs EXCEPT !.body = Append(@, frame)]
end(rs) == [rs EXCEPT !.ended = TRUE]

ErrorEnvelope(error, message) ==
    <<"json", [error |-> [type |-> ErrorType(error), message |-> message]]>>

\* sendError(res, statusCode, error, message), where the header is not yet sent
sendError(rs, statusCode, error, message) ==
    end(write(writeHead(rs, statusCode, JsonHeaders),
              ErrorEnvelope(error, message)))

\* the catch of handleChatCompletions (400), and behind it the catch of
\* handleRequest (500): each calls sendError, whose writeHead throws once the
\* header is out, so that on a started stream the handler's promise is rejected
\* and the response is left as it is
\* a catch that closes a started stream with the [DONE] frame
chatCatchDone(rs, message) ==
    IF HeadersSent(rs) THEN end(write(rs, <<"data: [DONE]">>))
    ELSE sendError(rs, 400, BadRequest, message)
chatCatch(rs, message) ==
    IF HeadersSent(rs) THEN [rs EXCEPT !.threw = TRUE]
    ELSE sendError(rs, 400, BadRequest, message)

\* !request.messages alone
MessagesMissing(b) == b.mkind \in {"absent", "null"}
\* !request.messages || !Array.isArray(request.messages)
MessagesInvalid(b) == b.mkind \in {"absent", "null"} \/ b.mkind # "array"

\* one SSE frame: `data: ${JSON.stringify(chunk)}\n\n`, and 'data: [DONE]\n\n'
DataFrame(chunk) == <<"data", chunk>>
DoneFrame == <<"data: [DONE]">>

----------------------------------------------------------------------------
(* State *)

NewLocals == [model |-> None, fullContent |-> "", chunks |-> <<>>, final |-> FALSE]

\* inits, sends : initialize() and sendRequest() calls made for this request
\* on, messages : the model and the messages of the sendRequest call
\* frags        : the fragments response.text has yielded so far
\* outcome      : "" while running, then "finished" or "failed"
\* cancelled    : isCancellationRequested of the token given to sendRequest,
\*                that of a fresh CancellationTokenSource
NewProvider == [inits |-> 0, sends |-> 0, on |-> None, messages |-> <<>>,
                frags |-> <<>>, outcome |-> "", cancelled |-> FALSE]

GatewayInit ==
    /\ models = <<>>
    /\ req = [c \in AllConns |-> NoRequest]
    /\ pc = [c \in AllConns |-> "idle"]
    /\ cont = [c \in AllConns |-> ""]
    /\ res = [c \in AllConns |-> NewResponse]
    /\ loc = [c \in AllConns |-> NewLocals]
    /\ prov = [c \in AllConns |-> NewProvider]
    /\ before = [c \in AllConns |-> None]

\* a preflight answered on the paths of the three routes only
IsPreflightOfRoute(r) ==
    r.method = "OPTIONS" /\ r.path \in {"/v1/chat/completions", "/v1/models", "/health"}
\* if (req.method === 'OPTIONS')
IsPreflight(r) == r.method = "OPTIONS"

IsChat(r) == r.path = "/v1/chat/completions" /\ r.method = "POST"
IsModels(r) == r.path = "/v1/models" /\ r.method = "GET"
\* a health route that answers every method
IsHealthAnyMethod(r) == r.path = "/health"
IsHealth(r) == r.path = "/health" /\ r.method = "GET"

Streaming(c) == req[c].body.stream

----------------------------------------------------------------------------
(* VSCodeLLMServer.handleRequest up to its first suspension *)

\* initialize() is called on behalf of `who` and suspends in the first query
CallInitialize(c, who) ==
    /\ pc' = [pc EXCEPT ![c] = "init1"]
    /\ cont' = [cont EXCEPT ![c] = who]
    /\ prov' = [prov EXCEPT ![c].inits = @ + 1]
    /\ before' = [before EXCEPT ![c] = Some(models)]

\* the running initialize() of c has returned or thrown
Returned(c) == before' = [before EXCEPT ![c] = None]

Finish(c) == pc' = [pc EXCEPT ![c] = "done"]

\* a health answer that depends on the cached list
HealthBodyOfRegistry ==
    <<"json", [status |-> IF models = <<>> THEN "unavailable" ELSE "healthy",
               server |-> "VS Code LLM API"]>>
\* the body of handleHealth, its timestamp left out
HealthBody == <<"json", [status |-> "healthy", server |-> "VS Code LLM API"]>>

Arrive(c, r) ==
    /\ pc[c] \in {"idle", "done"}
    /\ req' = [req EXCEPT ![c] = r]
    /\ loc' = [loc EXCEPT ![c] = NewLocals]
    /\ UNCHANGED <<cmdVars, available, models>>
    /\ LET rs == setHeader(setHeader(setHeader(NewResponse,
                    "Access-Control-Allow-Origin", "*"),
                    "Access-Control-Allow-Methods", "GET, POST, OPTIONS"),
                    "Access-Control-Allow-Headers", "Content-Type, Authorization")
       IN IF IsPreflight(r) THEN
              /\ res' = [res EXCEPT ![c] = end(writeHead(rs, 200, {}))]
              /\ prov' = [prov EXCEPT ![c] = NewProvider]
              /\ Finish(c) /\ UNCHANGED <<cont, before>>
          ELSE IF IsChat(r) THEN
              \* await this.readRequestBody(req)
              /\ res' = [res EXCEPT ![c] = rs]
              /\ prov' = [prov EXCEPT ![c] = NewProvider]
              /\ pc' = [pc EXCEPT ![c] = "body"] /\ UNCHANGED <<cont, before>>
          ELSE IF IsModels(r) THEN
              \* handleModels -> apiServer.handleModels -> api.initialize()
              /\ res' = [res EXCEPT ![c] = rs]
              /\ pc' = [pc EXCEPT ![c] = "init1"]
              /\ cont' = [cont EXCEPT ![c] = "models"]
              /\ prov' = [prov EXCEPT ![c] = [NewProvider EXCEPT !.inits = 1]]
              /\ before' = [before EXCEPT ![c] = Some(models)]
          ELSE IF IsHealth(r) THEN
              /\ res' = [res EXCEPT ![c] =
                            end(write(writeHead(rs, 200, JsonHeaders), HealthBody))]
              /\ prov' = [prov EXCEPT ![c] = NewProvider]
              /\ Finish(c) /\ UNCHANGED <<cont, before>>
          ELSE
              /\ res' = [res EXCEPT ![c] =
                            sendError(rs, 404, NotFound, "The requested endpoint was not found")]
              /\ prov' = [prov EXCEPT ![c] = NewProvider]
              /\ Finish(c) /\ UNCHANGED <<cont, before>>

\* the request stream errors while the body is read: readRequestBody rejects
\* outside the try of handleChatCompletions, so handleRequest's catch answers
ReadBodyFails(c) ==
    /\ pc[c] = "body"
    /\ req[c].body.syntax = "aborted"
    /\ res' = [res EXCEPT ![c] = sendError(@, 500, InternalServerError, "aborted")]
    /\ Finish(c)
    /\ UNCHANGED <<cmdVars, available, models, req, cont, loc, prov, before>>

\* the body has arrived: JSON.parse, validation, then
\* apiServer.handleChatCompletions(request), which awaits api.initialize()
ParseBody(c) ==
    /\ pc[c] = "body"
    /\ req[c].body.syntax # "aborted"
    /\ LET b == req[c].body IN
       IF b.syntax = "bad" THEN
           /\ res' = [res EXCEPT ![c] = chatCatch(@, "Unexpected token in JSON")]
           /\ Finish(c) /\ UNCHANGED <<cont, prov, before>>
       ELSE IF b.syntax = "null" THEN
           /\ res' = [res EXCEPT ![c] =
                         chatCatch(@, "Cannot read properties of null (reading 'messages')")]
           /\ Finish(c) /\ UNCHANGED <<cont, prov, before>>
       ELSE IF MessagesInvalid(b) THEN
           /\ res' = [res EXCEPT ![c] =
                         sendError(@, 400, BadRequest,
                                   "messages field is required and must be an array")]
           /\ Finish(c) /\ UNCHANGED <<cont, prov, before>>
       ELSE
           /\ CallInitialize(c, "server")
           /\ UNCHANGED res
    /\ UNCHANGED <<cmdVars, available, models, req, loc>>

----------------------------------------------------------------------------
(* VSCodeOpenAIAPI.initialize *)

\* an error reaches the caller of the running call: handleModels answers 500
\* itself, the chat route goes through the catch of handleChatCompletions
Thrown(c, rs, message) ==
    IF cont[c] = "models" THEN sendError(rs, 500, InternalServerError, message)
    ELSE chatCatch(rs, message)

\* this.models = await vscode.lm.selectChatModels({ vendor: 'copilot' })
Discover1(c) ==
    /\ pc[c] = "init1"
    /\ models' = CopilotModels(available)
    /\ IF Len(models') = 0
       THEN pc' = [pc EXCEPT ![c] = "init2"] /\ UNCHANGED before
       ELSE pc' = [pc EXCEPT ![c] = "resume"] /\ Returned(c)
    /\ UNCHANGED <<cmdVars, available, req, cont, res, loc, prov>>

\* this.models = await vscode.lm.selectChatModels()
Discover2(c) ==
    /\ pc[c] = "init2"
    /\ models' = AllModels(available)
    /\ pc' = [pc EXCEPT ![c] = "resume"]
    /\ Returned(c)
    /\ UNCHANGED <<cmdVars, available, req, cont, res, loc, prov>>

\* either query rejects: initialize() throws its own Error
DiscoverFails(c) ==
    /\ pc[c] \in {"init1", "init2"}
    /\ res' = [res EXCEPT ![c] = Thrown(c, @, NoModelsMessage)]
    /\ Finish(c)
    /\ Returned(c)
    /\ UNCHANGED <<cmdVars, available, models, req, cont, loc, prov>>

----------------------------------------------------------------------------
(* createChatCompletion / createChatCompletionStream up to sendRequest *)

\* selectModel, convertMessages, then model.sendRequest(...) inside the try:
\* on an undefined model the call throws a TypeError, which the catch rethrows
SelectAndSend(c, rs) ==
    LET model == selectModel(models, req[c].body.model) IN
    /\ loc' = [loc EXCEPT ![c].model = model]
    /\ UNCHANGED <<cont, before>>
    /\ IF model = None THEN
           /\ res' = [res EXCEPT ![c] = chatCatch(rs, UndefinedModelMessage)]
           /\ Finish(c) /\ UNCHANGED prov
       ELSE
           /\ res' = [res EXCEPT ![c] = rs]
           /\ prov' = [prov EXCEPT ![c].sends = @ + 1, ![c].on = model,
                                   ![c].messages = convertMessages(req[c].body.msgs)]
           /\ pc' = [pc EXCEPT ![c] = "send"]

\* if (this.models.length === 0) await this.initialize();
Translate(c, who, rs) ==
    IF Len(models) = 0 THEN
        /\ CallInitialize(c, who)
        /\ res' = [res EXCEPT ![c] = rs]
        /\ UNCHANGED loc
    ELSE SelectAndSend(c, rs)

ModelsBody(ms) ==
    <<"json", [data |-> [i \in 1..Len(listModels(ms)) |->
                            [id |-> listModels(ms)[i], object |-> "model",
                             owned_by |-> "vscode"]]]>>

\* initialize() has returned; its caller runs on
Resume(c) ==
    /\ pc[c] = "resume"
    /\ UNCHANGED <<cmdVars, available, models, req>>
    /\ CASE cont[c] = "models" ->
              /\ res' = [res EXCEPT ![c] =
                            end(write(writeHead(@, 200, JsonHeaders),
                                      ModelsBody(models)))]
              /\ Finish(c) /\ UNCHANGED <<cont, loc, prov, before>>
         [] cont[c] = "server" ->
              IF Streaming(c)
              THEN \* the generator is returned unstarted; the gateway writes the
                   \* SSE header and pulls the first chunk
                   Translate(c, "stream", writeHead(res[c], 200, SseHeaders))
              ELSE Translate(c, "create", res[c])
         [] OTHER -> SelectAndSend(c, res[c])

----------------------------------------------------------------------------
(* The provider call and the response *)

\* await model.sendRequest(...) resolves; the stream yields its role chunk
SendReturns(c) ==
    /\ pc[c] = "send"
    /\ IF Streaming(c) THEN
           /\ loc' = [loc EXCEPT ![c].chunks = Append(@, RoleChunk(loc[c].model[1]))]
           /\ pc' = [pc EXCEPT ![c] = "yield"]
       ELSE
           /\ pc' = [pc EXCEPT ![c] = "text"] /\ UNCHANGED loc
    /\ UNCHANGED <<cmdVars, available, models, req, cont, res, prov, before>>

\* sendRequest rejects
SendFails(c, e) ==
    /\ pc[c] = "send"
    /\ prov' = [prov EXCEPT ![c].outcome = "failed"]
    /\ res' = [res EXCEPT ![c] = chatCatch(@, TranslateError(e))]
    /\ Finish(c)
    /\ UNCHANGED <<cmdVars, available, models, req, cont, loc, before>>

\* for await (const fragment of response.text): the next fragment
TextYields(c, fragment) ==
    /\ pc[c] = "text"
    /\ Len(prov[c].frags) < MaxFrags
    /\ prov' = [prov EXCEPT ![c].frags = Append(@, fragment)]
    /\ IF Streaming(c) THEN
           /\ loc' = [loc EXCEPT ![c].chunks =
                         Append(@, ContentChunk(loc[c].model[1], fragment))]
           /\ pc' = [pc EXCEPT ![c] = "yield"]
       ELSE
           /\ loc' = [loc EXCEPT ![c].fullContent = Accumulate(@, fragment)]
           /\ UNCHANGED pc
    /\ UNCHANGED <<cmdVars, available, models, req, cont, res, before>>

\* response.text is exhausted: the final chunk, or the buffered response,
\* which the gateway sends at once
TextEnds(c) ==
    /\ pc[c] = "text"
    /\ prov' = [prov EXCEPT ![c].outcome = "finished"]
    /\ IF Streaming(c) THEN
           /\ loc' = [loc EXCEPT ![c].chunks = Append(@, FinalChunk(loc[c].model[1])),
                                 ![c].final = TRUE]
           /\ pc' = [pc EXCEPT ![c] = "yield"]
           /\ UNCHANGED res
       ELSE
           /\ res' = [res EXCEPT ![c] =
                         end(write(writeHead(@, 200, JsonHeaders),
                                   <<"json", CompletionResponse(loc[c].model[1],
                                                                req[c].body.msgs,
                                                                loc[c].fullContent)>>))]
           /\ Finish(c) /\ UNCHANGED loc
    /\ UNCHANGED <<cmdVars, available, models, req, cont, before>>

\* the text iterator throws
TextFails(c, e) ==
    /\ pc[c] = "text"
    /\ prov' = [prov EXCEPT ![c].outcome = "failed"]
    /\ res' = [res EXCEPT ![c] = chatCatch(@, TranslateError(e))]
    /\ Finish(c)
    /\ UNCHANGED <<cmdVars, available, models, req, cont, loc, before>>

\* the gateway's for await has the chunk: res.write, then the next pull; after
\* the final chunk the generator returns and the gateway writes [DONE] and ends
WriteChunk(c) ==
    /\ pc[c] = "yield"
    /\ LET chunk == loc[c].chunks[Len(loc[c].chunks)]
           written == write(res[c], DataFrame(chunk))
       IN IF loc[c].final THEN
              /\ res' = [res EXCEPT ![c] = end(write(written, DoneFrame))]
              /\ Finish(c)
          ELSE
              /\ res' = [res EXCEPT ![c] = written]
              /\ pc' = [pc EXCEPT ![c] = "text"]
    /\ UNCHANGED <<cmdVars, available, models, req, cont, loc, prov, before>>

\* The client closes the connection while the provider call of its request
\* is in flight. Neither request nor response carries a 'close' listener and
\* the CancellationTokenSource behind the token is dropped where it is made,
\* so the handler runs on as before and its writes go to a closed socket.
ClientCloses(c) ==
    /\ pc[c] \in {"send", "text", "yield"}
    /\ ~res[c].closed
    /\ res' = [res EXCEPT ![c].closed = TRUE]
    /\ UNCHANGED <<cmdVars, available, models, req, pc, cont, loc, prov, before>>

----------------------------------------------------------------------------

(* registerLLMServerCommands: the start and stop commands *)

NoCmd == [kind |-> "", pc |-> "", srv |-> None, bound |-> FALSE]

CommandsInit ==
    /\ server = None
    /\ cmd = [i \in Invocations |-> NoCmd]
    /\ listeners = {}
    /\ created = 0

Return(i) == cmd' = [cmd EXCEPT ![i] = NoCmd]

PortFree(port) == \A l \in listeners : l.port # port

\* chatSample.startLLMServer is invoked: `if (server)` warns and returns,
\* otherwise the handler suspends in showInputBox
StartCommand(i) ==
    /\ cmd[i] = NoCmd
    /\ IF server # None THEN UNCHANGED cmd
       ELSE cmd' = [cmd EXCEPT ![i] = [NoCmd EXCEPT !.kind = "start", !.pc = "prompt"]]
    /\ UNCHANGED <<gatewayVars, server, listeners, created>>

\* the prompt is dismissed: `if (!portInput) return`
PromptDismissed(i) ==
    /\ cmd[i].pc = "prompt"
    /\ Return(i)
    /\ UNCHANGED <<gatewayVars, server, listeners, created>>

\* the prompt returns a valid port: server = new VSCodeLLMServer(port), then
\* server.start() creates the http.Server and calls listen(port), which binds
\* the port or fails (taken by a listener of this process, or by another
\* process); the handler suspends until the listen callback or the 'error'
\* event
PromptAnswered(i, port, busy) ==
    /\ cmd[i].pc = "prompt"
    /\ created < MaxServers
    /\ created' = created + 1
    /\ server' = Some(created')
    /\ LET bound == PortFree(port) /\ ~busy IN
       /\ listeners' = IF bound THEN listeners \cup {[id |-> created', port |-> port]}
                       ELSE listeners
       /\ cmd' = [cmd EXCEPT ![i] = [kind |-> "start", pc |-> "listen",
                                     srv |-> Some(created'), bound |-> bound]]
    /\ UNCHANGED gatewayVars

\* the listen callback resolves start(); or 'error' rejects it and the catch
\* of the command shows the error and sets server = null
ListenSettles(i) ==
    /\ cmd[i].pc = "listen"
    /\ server' = IF cmd[i].bound THEN server ELSE None
    /\ Return(i)
    /\ UNCHANGED <<gatewayVars, listeners, created>>

\* chatSample.stopLLMServer is invoked: `if (!server)` warns and returns,
\* otherwise server.stop() calls close() on the http.Server of the tracked
\* instance, which stops listening at once, and the handler suspends until
\* the close callback
StopCommand(i) ==
    /\ cmd[i] = NoCmd
    /\ IF server = None THEN UNCHANGED <<cmd, listeners>>
       ELSE /\ listeners' = {l \in listeners : l.id # server[1]}
            /\ cmd' = [cmd EXCEPT ![i] = [kind |-> "stop", pc |-> "closing",
                                          srv |-> server, bound |-> FALSE]]
    /\ UNCHANGED <<gatewayVars, server, created>>

\* the close callback resolves stop(): server = null
StopSettles(i) ==
    /\ cmd[i].pc = "closing"
    /\ server' = None
    /\ Return(i)
    /\ UNCHANGED <<gatewayVars, listeners, created>>

----------------------------------------------------------------------------

Init ==
    /\ available \in Offers
    /\ GatewayInit
    /\ CommandsInit

Next ==
    \E c \in Conns :
        \/ \E r \in Requests : Arrive(c, r)
        \/ ReadBodyFails(c)
        \/ ParseBody(c)
        \/ Discover1(c)
        \/ Discover2(c)
        \/ DiscoverFails(c)
        \/ Resume(c)
        \/ SendReturns(c)
        \/ \E e \in ProviderErrors : SendFails(c, e)
        \/ \E f \in Fragments : TextYields(c, f)
        \/ TextEnds(c)
        \/ \E e \in ProviderErrors : TextFails(c, e)
        \/ WriteChunk(c)
        \/ ClientCloses(c)

\* the requests of one connection after another, no command being invoked
Spec == Init /\ [][Next]_vars

\* Two connections served concurrently, their handlers interleaved at their
\* suspension points, over a narrower choice of hosts, requests, fragments
\* and provider errors.
ConcOffers == {s \in Offers : Len(s) <= 1 /\ \A i \in 1..Len(s) : s[i].family = "gpt"}
ConcRequests ==
    {[method |-> "GET", path |-> p, body |-> NoBody] : p \in {"/v1/models", "/health"}}
    \cup {[method |-> "POST", path |-> "/v1/chat/completions",
           body |-> [syntax |-> "object", mkind |-> "array",
                     msgs |-> OneMessage, stream |-> st, model |-> None]] :
          st \in BOOLEAN}
ConcFragments == {"a"}
ConcErrors == {e \in ProviderErrors : ~e.lm}

ConcInit ==
    /\ available \in ConcOffers
    /\ GatewayInit
    /\ CommandsInit

ConcNext ==
    \E c \in AllConns :
        \/ \E r \in ConcRequests : Arrive(c, r)
        \/ ParseBody(c)
        \/ Discover1(c)
        \/ Discover2(c)
        \/ DiscoverFails(c)
        \/ Resume(c)
        \/ SendReturns(c)
        \/ \E e \in ConcErrors : SendFails(c, e)
        \/ \E f \in ConcFragments : TextYields(c, f)
        \/ TextEnds(c)
        \/ \E e \in ConcErrors : TextFails(c, e)
        \/ WriteChunk(c)

ConcSpec == ConcInit /\ [][ConcNext]_vars

\* The commands alone, no request being served.
CmdInit ==
    /\ available = <<>>
    /\ GatewayInit
    /\ CommandsInit

CmdNext ==
    \E i \in Invocations :
        \/ StartCommand(i)
        \/ PromptDismissed(i)
        \/ \E port \in Ports, busy \in BOOLEAN : PromptAnswered(i, port, busy)
        \/ ListenSettles(i)
        \/ StopCommand(i)
        \/ StopSettles(i)

CmdSpec == CmdInit /\ [][CmdNext]_vars

----------------------------------------------------------------------------
(* Properties *)

Served(c) == pc[c] # "idle"
ChatStream(c) == Served(c) /\ IsChat(req[c]) /\ req[c].body.mkind = "array" /\ Streaming(c)
ChatBuffered(c) == Served(c) /\ IsChat(req[c]) /\ req[c].body.mkind = "array" /\ ~Streaming(c)

\* C1: a stream whose provider call succeeds and yields f1..fn produces, in this
\* order, one role-only chunk, one content chunk per fragment carrying it
\* unchanged, and one final chunk with an empty delta and finish_reason "stop";
\* while the call runs the chunks are a prefix of that sequence, and nothing
\* follows the final chunk.
C1_StreamShape ==
    \A c \in Conns :
        ChatStream(c) /\ loc[c].chunks # <<>> =>
            LET ch == loc[c].chunks
                fr == prov[c].frags
                n == Len(fr)
                finished == prov[c].outcome = "finished"
            IN /\ Len(ch) = 1 + n + (IF finished THEN 1 ELSE 0)
               /\ ch[1].delta = [role |-> <<"assistant">>, content |-> <<>>]
               /\ ch[1].finish_reason = <<>>
               /\ \A i \in 1..n :
                     /\ ch[i + 1].delta = [role |-> <<>>, content |-> <<fr[i]>>]
                     /\ ch[i + 1].finish_reason = <<>>
               /\ finished =>
                     /\ ch[n + 2].delta = [role |-> <<>>, content |-> <<>>]
                     /\ ch[n + 2].finish_reason = <<"stop">>

C1_Witness ==
    \E c \in Conns :
        /\ ChatStream(c) /\ pc[c] = "done"
        /\ prov[c].outcome = "finished"
        /\ prov[c].frags = <<"b", "a">>
        /\ Len(loc[c].chunks) = 4

\* C2: a streamed completion that ends normally is written as status 200 with
\* the SSE headers, then one data frame per chunk in the order produced, each
\* written before the next chunk is pulled, then one [DONE] frame, then the end
\* of the response; [DONE] is last and follows the frame of the "stop" chunk.
C2_SseFraming ==
    \A c \in Conns :
        ChatStream(c) /\ prov[c].sends > 0 /\ prov[c].outcome # "failed" =>
            LET ch == loc[c].chunks
                body == res[c].body
                k == IF pc[c] = "done" THEN Len(ch)
                     ELSE IF pc[c] = "yield" THEN Len(ch) - 1 ELSE Len(ch)
            IN /\ res[c].status = 200 /\ res[c].heads = 1
               /\ SseHeaders \subseteq res[c].headers
               /\ Len(body) = k + (IF pc[c] = "done" THEN 1 ELSE 0)
               /\ \A i \in 1..k : body[i] = <<"data", ch[i]>>
               /\ res[c].ended = (pc[c] = "done")
               /\ pc[c] = "done" =>
                     /\ body[k + 1] = <<"data: [DONE]">>
                     /\ prov[c].outcome = "finished"
                     /\ ch[k].finish_reason = <<"stop">>

C2_Witness ==
    \E c \in Conns :
        /\ ChatStream(c) /\ pc[c] = "done" /\ prov[c].outcome = "finished"
        /\ Len(prov[c].frags) = 2
        /\ res[c].ended /\ Len(res[c].body) = 5

RECURSIVE Concat(_)
Concat(texts) == IF texts = <<>> THEN "" ELSE texts[1] \o Concat(Tail(texts))

\* the delta.content values of a chunk sequence, in order
RECURSIVE Contents(_)
Contents(chunks) ==
    IF chunks = <<>> THEN <<>>
    ELSE chunks[1].delta.content \o Contents(Tail(chunks))

\* C3: for one provider output, the content of the buffered response and the
\* concatenation of the delta.content values of the streamed chunks are the
\* same text, the in-order concatenation of the provider's fragments.
C3_BufferedEqualsStreamed ==
    \A c \in Conns :
        pc[c] = "done" /\ prov[c].outcome = "finished" =>
            /\ ChatStream(c) => Concat(Contents(loc[c].chunks)) = Concat(prov[c].frags)
            /\ ChatBuffered(c) =>
                  /\ Len(res[c].body) = 1
                  /\ res[c].body[1][2].choices[1].message.content = Concat(prov[c].frags)

C3_Witness ==
    \E c \in Conns :
        /\ ChatBuffered(c) /\ pc[c] = "done" /\ prov[c].outcome = "finished"
        /\ prov[c].frags = <<"a", "b">>
        /\ res[c].body[1][2].choices[1].message.content = "ab"

\* C4: when the provider fails during a streamed completion, the response
\* holds the frames of the chunks produced until then (the role chunk, if the
\* call had returned, and one per fragment yielded) and nothing else: no frame
\* of a "stop" chunk and no [DONE] frame.
C4_FailedStream ==
    \A c \in Conns :
        ChatStream(c) /\ prov[c].outcome = "failed" =>
            LET ch == loc[c].chunks
                body == res[c].body
            IN /\ Len(body) = Len(ch)
               /\ Len(ch) = IF ch = <<>> THEN 0 ELSE 1 + Len(prov[c].frags)
               /\ \A i \in 1..Len(ch) :
                     /\ body[i] = <<"data", ch[i]>>
                     /\ ch[i].finish_reason = <<>>
                     /\ i > 1 => ch[i].delta.content = <<prov[c].frags[i - 1]>>

C4_Witness ==
    \E c \in Conns :
        /\ ChatStream(c) /\ prov[c].outcome = "failed" /\ pc[c] = "done"
        /\ Len(prov[c].frags) = 2
        /\ Len(res[c].body) = 3


ErrorBody(c) == res[c].body[1][2].error

\* C5: on the chat route only validation failures are answered 400; a failure
\* of model discovery or of the provider call is answered 500 with the standard
\* envelope carrying the failure's message.
C5_OtherFailuresAre500 ==
    \A c \in Conns :
        Served(c) /\ IsChat(req[c]) /\ pc[c] = "done" =>
            /\ res[c].status = 400 => req[c].body \in InvalidBodies
            /\ req[c].body.mkind = "array" /\ prov[c].outcome # "finished" =>
                  /\ res[c].status = 500
                  /\ ErrorBody(c).type = "internal_server_error"

\* C6: a chat request whose body does not parse, or parses to something
\* without a messages array, is answered 400 "bad_request", and neither
\* initialize nor sendRequest is called for it.
C6_InvalidBodyIs400 ==
    \A c \in Conns :
        Served(c) /\ IsChat(req[c]) /\ req[c].body \in InvalidBodies =>
            /\ prov[c].inits = 0 /\ prov[c].sends = 0
            /\ pc[c] \in {"body", "done"}
            /\ pc[c] = "done" =>
                  /\ res[c].status = 400 /\ res[c].heads = 1 /\ res[c].ended
                  /\ Len(res[c].body) = 1
                  /\ ErrorBody(c).type = "bad_request"

C6_Witness ==
    \E c \in Conns :
        /\ Served(c) /\ IsChat(req[c]) /\ pc[c] = "done"
        /\ req[c].body.syntax = "object" /\ req[c].body.mkind = "string"
        /\ res[c].status = 400

\* C7: a chat request whose messages is the empty array is answered 400
\* "bad_request" and does not reach the provider.
C7_EmptyMessagesIs400 ==
    \A c \in Conns :
        Served(c) /\ IsChat(req[c]) /\ req[c].body.mkind = "array"
        /\ req[c].body.msgs = <<>> =>
            /\ prov[c].sends = 0
            /\ pc[c] = "done" =>
                  /\ res[c].status = 400
                  /\ ErrorBody(c).type = "bad_request"

\* C8: initialize() never returns normally with an empty cached list: when
\* both queries come back empty it throws.
C8_InitializeNeverEmpty ==
    \A c \in Conns : pc[c] = "resume" => Len(models) > 0

NameOf(c) == req[c].body.model
Named(c) == NameOf(c) # <<>> /\ NameOf(c)[1] # ""
CompositeAt(c, i) == Composite(models[i]) = NameOf(c)[1]
FamilyAt(c, i) == models[i].family = NameOf(c)[1]

\* a step in which connection c runs selectModel and then calls sendRequest
Selects(c) == pc[c] = "resume" /\ pc'[c] = "send"

\* C9 (as claimed): composite matches come before family matches: if some
\* cached model's composite identifier equals the name, the first such model is
\* selected, even behind a model whose family equals the name.
C9_CompositeBeforeFamily ==
    [][\A c \in Conns :
          Selects(c) /\ Named(c) =>
              \A i \in 1..Len(models) :
                  (CompositeAt(c, i) /\ \A j \in 1..(i - 1) : ~CompositeAt(c, j))
                      => loc'[c].model = <<models[i]>>]_vars

\* C9 (amended): with a name given and matched, the first cached model, in
\* discovery order, whose composite identifier or whose family equals the name
\* is selected.
C9_FirstOfEitherMatch ==
    [][\A c \in Conns :
          Selects(c) /\ Named(c) =>
              \A i \in 1..Len(models) :
                  ((CompositeAt(c, i) \/ FamilyAt(c, i))
                   /\ \A j \in 1..(i - 1) : ~(CompositeAt(c, j) \/ FamilyAt(c, j)))
                      => loc'[c].model = <<models[i]>>]_vars

\* the family of an earlier model and the composite identifier of a later one
\* both equal the name, and the earlier one is in use
C9_Witness ==
    \E c \in Conns :
        /\ pc[c] = "send" /\ Named(c) /\ Len(models) = 2
        /\ FamilyAt(c, 1) /\ ~CompositeAt(c, 1) /\ CompositeAt(c, 2)
        /\ prov[c].on = <<models[1]>>

\* C10: with a non-empty cached list selectModel always yields a model and the
\* request goes on to sendRequest; with no name, or a name that equals no
\* cached composite identifier or family, that model is the first cached one.
C10_FallbackToFirst ==
    [][\A c \in Conns :
          pc[c] = "resume" /\ pc'[c] # "resume" /\ cont[c] # "models"
          /\ Len(models) > 0 =>
              /\ pc'[c] = "send"
              /\ loc'[c].model # <<>> /\ prov'[c].on = loc'[c].model
              /\ \E i \in 1..Len(models) : loc'[c].model = <<models[i]>>
              /\ (~Named(c) \/ \A i \in 1..Len(models) :
                                  ~(CompositeAt(c, i) \/ FamilyAt(c, i)))
                    => loc'[c].model = <<models[1]>>]_vars

C10_Witness ==
    \E c \in Conns :
        /\ pc[c] = "send" /\ NameOf(c) = <<"nope">> /\ Len(models) = 2
        /\ prov[c].on = <<models[1]>>

\* C11: when the client closes the connection while the provider call of its
\* request is in flight, the cancellation token given to that call gets
\* cancelled: no handler of such a request finishes with the token of its
\* call never cancelled.
C11_CloseCancels ==
    \A c \in Conns :
        res[c].closed /\ pc[c] = "done" => prov[c].cancelled

\* C14: every error response carries an envelope {error: {type, message}}
\* whose type is the phrase of its status in lower case with every space
\* replaced by an underscore: bad_request with 400, not_found with 404 and
\* internal_server_error with 500.
C14_ErrorTypes ==
    \A c \in Conns :
        pc[c] = "done" /\ res[c].status \in {400, 404, 500} /\ res[c].body # <<>> =>
            /\ DOMAIN res[c].body[1][2] = {"error"}
            /\ DOMAIN ErrorBody(c) = {"type", "message"}
            /\ ErrorBody(c).type = CASE res[c].status = 400 -> "bad_request"
                                      [] res[c].status = 404 -> "not_found"
                                      [] res[c].status = 500 -> "internal_server_error"

\* the buffered completions that were answered with 200
BufferedOk(c) == ChatBuffered(c) /\ pc[c] = "done" /\ res[c].status = 200
Usage(c) == res[c].body[1][2].usage

\* the sum of the lengths of the contents of the messages
RECURSIVE SumLen(_)
SumLen(msgs) == IF msgs = <<>> THEN 0 ELSE Len(Head(msgs).content) + SumLen(Tail(msgs))

\* the least k with 4k >= n
Quarter(n) == CHOOSE k \in 0..n : 4 * k >= n /\ 4 * (k - 1) < n

\* C15: in every buffered response prompt_tokens is ceil(L/4), L being the sum
\* of the lengths of the request's message contents with nothing added between
\* them, and completion_tokens is ceil(length of the generated content / 4),
\* for any number of messages.
C15_TokensOfConcatenation ==
    \A c \in Conns :
        BufferedOk(c) =>
            /\ Usage(c).prompt_tokens = Quarter(SumLen(req[c].body.msgs))
            /\ Usage(c).completion_tokens = Quarter(Len(Concat(prov[c].frags)))

\* C15, amended: L is the length of the contents joined with one space between
\* consecutive messages, that is their sum plus n - 1 for n >= 1 messages.
C15_TokensOfJoinedContents ==
    \A c \in Conns :
        BufferedOk(c) =>
            LET n == Len(req[c].body.msgs)
                L == SumLen(req[c].body.msgs) + (IF n = 0 THEN 0 ELSE n - 1)
            IN /\ Usage(c).prompt_tokens = Quarter(L)
               /\ Usage(c).completion_tokens = Quarter(Len(Concat(prov[c].frags)))

\* two messages of four characters in all count as two tokens, and a content
\* of two characters as one
C15_Witness ==
    \E c \in Conns :
        /\ BufferedOk(c) /\ Len(req[c].body.msgs) = 2
        /\ SumLen(req[c].body.msgs) = 4
        /\ Len(Concat(prov[c].frags)) = 2
        /\ Usage(c).prompt_tokens = 2 /\ Usage(c).completion_tokens = 1

\* C16: every buffered completion response has total_tokens equal to
\* prompt_tokens plus completion_tokens, and exactly one choice, with index 0,
\* role "assistant" and finish_reason "stop".
C16_BufferedResponseShape ==
    \A c \in Conns :
        BufferedOk(c) =>
            LET r == res[c].body[1][2] IN
            /\ r.usage.total_tokens = r.usage.prompt_tokens + r.usage.completion_tokens
            /\ Len(r.choices) = 1
            /\ r.choices[1].index = 0
            /\ r.choices[1].message.role = "assistant"
            /\ r.choices[1].finish_reason = "stop"

\* a response whose prompt and completion both count
C16_Witness ==
    \E c \in Conns :
        /\ BufferedOk(c)
        /\ Usage(c).prompt_tokens = 2 /\ Usage(c).completion_tokens = 1
        /\ Usage(c).total_tokens = 3

\* C17: every response, on every route and with every outcome, has the three
\* CORS headers (Access-Control-Allow-Origin: *, Access-Control-Allow-Methods:
\* GET, POST, OPTIONS, Access-Control-Allow-Headers: Content-Type,
\* Authorization) among its headers when its status line is written.
C17_CorsOnEveryResponse ==
    \A c \in Conns :
        HeadersSent(res[c]) =>
            /\ <<"Access-Control-Allow-Origin", "*">> \in res[c].headers
            /\ <<"Access-Control-Allow-Methods", "GET, POST, OPTIONS">> \in res[c].headers
            /\ <<"Access-Control-Allow-Headers", "Content-Type, Authorization">>
                   \in res[c].headers

\* an event stream, with its own three headers besides
C17_Witness ==
    \E c \in Conns :
        /\ HeadersSent(res[c]) /\ res[c].status = 200
        /\ SseHeaders \subseteq res[c].headers
        /\ Cardinality(res[c].headers) = 6

\* C18: an OPTIONS request on any path is answered 200 with an empty body and
\* nothing else happens: no route handler runs, the body is not read,
\* initialize() and the provider are not called and the cached list stays as
\* it was.
C18_Preflight ==
    [][\A c \in Conns :
          pc[c] \in {"idle", "done"} /\ req'[c].method = "OPTIONS" =>
              /\ pc'[c] = "done"
              /\ res'[c].status = 200 /\ res'[c].heads = 1
              /\ res'[c].body = <<>> /\ res'[c].ended
              /\ prov'[c].inits = 0 /\ prov'[c].sends = 0
              /\ models' = models /\ before' = before /\ cont' = cont]_vars

\* the preflight of the chat route, answered with the cache filled before
C18_Witness ==
    \E c \in Conns :
        /\ req[c].method = "OPTIONS" /\ req[c].path = "/v1/chat/completions"
        /\ pc[c] = "done" /\ res[c].status = 200 /\ res[c].body = <<>>
        /\ models # <<>>

\* C19: a request other than OPTIONS whose method and path are not POST
\* /v1/chat/completions, GET /v1/models or GET /health, a known path with
\* another method included, is answered 404 with the type not_found, and
\* neither initialize() nor the provider is called for it.
C19_UnknownRouteIs404 ==
    \A c \in Conns :
        /\ Served(c) /\ req[c].method # "OPTIONS"
        /\ ~(req[c].method = "POST" /\ req[c].path = "/v1/chat/completions")
        /\ ~(req[c].method = "GET" /\ req[c].path = "/v1/models")
        /\ ~(req[c].method = "GET" /\ req[c].path = "/health")
        => /\ pc[c] = "done"
           /\ res[c].status = 404 /\ res[c].heads = 1 /\ res[c].ended
           /\ Len(res[c].body) = 1
           /\ ErrorBody(c).type = "not_found"
           /\ prov[c].inits = 0 /\ prov[c].sends = 0

\* the chat path asked with GET
C19_Witness ==
    \E c \in Conns :
        /\ req[c].method = "GET" /\ req[c].path = "/v1/chat/completions"
        /\ pc[c] = "done" /\ res[c].status = 404
        /\ ErrorBody(c).type = "not_found"

\* C20: GET /health is answered 200 with status "healthy" in every reachable
\* state: whatever the cached list holds, whether or not initialize() has run
\* or the host offers a model, and while other requests are in flight or have
\* failed.
C20_HealthAlwaysHealthy ==
    \A c \in AllConns :
        Served(c) /\ req[c].method = "GET" /\ req[c].path = "/health" =>
            /\ pc[c] = "done"
            /\ res[c].status = 200 /\ res[c].heads = 1 /\ res[c].ended
            /\ Len(res[c].body) = 1
            /\ res[c].body[1][2].status = "healthy"
            /\ prov[c].inits = 0 /\ prov[c].sends = 0

\* the health answer of one connection beside the request of another that is
\* between the two discovery queries, the cached list being empty
C20_Witness ==
    \E c, d \in AllConns :
        /\ c # d
        /\ req[c].method = "GET" /\ req[c].path = "/health"
        /\ pc[c] = "done" /\ res[c].status = 200
        /\ res[c].body[1][2].status = "healthy"
        /\ pc[d] = "init2" /\ models = <<>>

\* C12: however start and stop commands interleave, a start invoked while a
\* server is started or starting (its command awaiting the port prompt or the
\* listen callback) and not yet stopped is rejected, and at no time do two
\* listeners exist at once.
C12_SingleServer ==
    /\ Cardinality({i \in Invocations : cmd[i].kind = "start"}) <= 1
    /\ Cardinality(listeners) <= 1

\* C13: a read of the cached list (listModels, selectModel, the length check
\* of the completion paths) made while the initialize() of another request
\* runs sees either the list cached when that initialize() was called or the
\* list it installs in the end, never a value in between such as the empty
\* result of the default-vendor query that precedes the fallback query.
C13_ReadsCompleteLists ==
    [][\A c \in AllConns :
          pc[c] = "resume" /\ pc'[c] # "resume" =>
              \A d \in AllConns \ {c} :
                  pc[d] = "init2" =>
                      \/ models = before[d][1]
                      \/ models = AllModels(available)]_vars

\* C21: the messages given to sendRequest are as many as the request's and in
\* their order, the i-th with the content of the i-th request message and the
\* turn "user" for the roles system and user, "assistant" for the role
\* assistant, on the buffered path and on the streaming path alike.
C21_MessageConversion ==
    \A c \in Conns :
        Served(c) /\ prov[c].sends > 0 =>
            LET given == prov[c].messages
                asked == req[c].body.msgs
            IN /\ Len(given) = Len(asked)
               /\ \A i \in 1..Len(asked) :
                      /\ given[i].content = asked[i].content
                      /\ asked[i].role \in {"system", "user"} => given[i].turn = "user"
                      /\ asked[i].role = "assistant" => given[i].turn = "assistant"

\* a system and an assistant message given to the provider by a stream
C21_Witness ==
    \E c \in Conns :
        /\ ChatStream(c) /\ prov[c].sends > 0
        /\ Len(req[c].body.msgs) = 2
        /\ req[c].body.msgs[1].role = "system" /\ prov[c].messages[1].turn = "user"
        /\ req[c].body.msgs[2].role = "assistant" /\ prov[c].messages[2].turn = "assistant"

\* s holds, in the order of `offer`, exactly the models of `offer` that
\* satisfy Wanted
IsSelection(s, offer, Wanted(_)) ==
    /\ \A i \in 1..Len(offer) : Wanted(offer[i]) <=> \E j \in 1..Len(s) : s[j] = offer[i]
    /\ \A j \in 1..Len(s) : \E i \in 1..Len(offer) : offer[i] = s[j]
    /\ \A j, k \in 1..Len(s) :
           j < k => \E i, l \in 1..Len(offer) : i < l /\ offer[i] = s[j] /\ offer[l] = s[k]

IsCopilot(m) == m.vendor = "copilot"
OffersCopilot == \E i \in 1..Len(available) : IsCopilot(available[i])

\* C22: initialize() asks for the models of the default vendor first and for
\* all models only if that query returned none; when it has returned, the
\* cached list is the first result if that was not empty and the second result
\* otherwise, in the host's discovery order, and listModels gives the
\* vendor-family identifiers of exactly that list in that order.
C22_DiscoveryOrder ==
    \A c \in Conns :
        /\ pc[c] = "init2" => ~OffersCopilot /\ models = <<>>
        /\ pc[c] = "resume" =>
               IF OffersCopilot THEN IsSelection(models, available, IsCopilot)
               ELSE models = available
        /\ pc[c] = "done" /\ req[c].method = "GET" /\ req[c].path = "/v1/models"
           /\ res[c].status = 200 =>
               LET data == res[c].body[1][2].data IN
               /\ Len(data) = Len(models)
               /\ \A i \in 1..Len(models) :
                      data[i].id = models[i].vendor \o "-" \o models[i].family
               /\ IF OffersCopilot THEN IsSelection(models, available, IsCopilot)
                  ELSE models = available

\* the listing of a host with two models of another vendor, in its order
C22_Witness ==
    \E c \in Conns :
        /\ pc[c] = "done" /\ req[c].method = "GET" /\ req[c].path = "/v1/models"
        /\ res[c].status = 200
        /\ Len(available) = 2 /\ ~OffersCopilot
        /\ Len(res[c].body[1][2].data) = 2
        /\ res[c].body[1][2].data[1].id = "acme-gpt"
        /\ res[c].body[1][2].data[2].id = "acme-copilot-gpt"

\* C23: every request the gateway accepts has its response ended, a streaming
\* request whose provider call fails before or after some chunks were written
\* included: once the handler of a request has run to its end, with nothing
\* left that could act on the response, the response is ended.
C23_EveryResponseEnded ==
    \A c \in Conns :
        pc[c] = "done" => res[c].ended

\* C24: a status line is written at most once per response, and once the 200
\* and the SSE headers of a stream are out no code path attempts to write
\* another one, an error envelope of sendError in particular.
C24_OneStatusLine ==
    \A c \in Conns :
        res[c].heads <= 1 /\ ~res[c].threw

\* C25: however start commands, stop commands, dismissed prompts and failed
\* starts interleave, every listener that is listening is the one the tracked
\* handle refers to; the handle is never null, by a failed start or otherwise,
\* while a listener of an earlier start is listening.
C25_ListenersAreTracked ==
    \A l \in listeners : server = Some(l.id)

\* C26: when the host offers at least one model, every chat completion request
\* that comes to model selection, buffered or streaming, under any
\* interleaving with other requests that re-run initialize(), selects a model
\* of the cached list and goes on to sendRequest with it; sendRequest is never
\* invoked on an absent model.
C26_SelectionIsDefined ==
    [][\A c \in AllConns :
          /\ pc[c] = "resume" /\ cont[c] # "models"
          /\ pc'[c] \in {"send", "done"}
          /\ available # <<>>
          => /\ loc'[c].model # None
             /\ \E i \in 1..Len(models) : loc'[c].model = Some(models[i])
             /\ pc'[c] = "send" /\ prov'[c].on = loc'[c].model]_vars

====
